---- MODULE Spec2Model ----
(***************************************************************************)
(* Model of app/main.py: a FastAPI application that keeps one global       *)
(* serial handle (ser) and one global MAVLink link (mav_connection) and    *)
(* serves connect_drone, get_telemetry, change_mode, send_command and      *)
(* disconnect_drone.  The handlers are plain "def" functions, which        *)
(* FastAPI runs on a thread pool, so the handlers of concurrent requests   *)
(* interleave statement by statement; every read of a global is a step of  *)
(* its own where another handler can change the global in between.        *)
(*                                                                         *)
(* Objects created by the k-th connect_drone call carry the identity k:    *)
(* serState[k] is the serial.Serial object of line 47, linkState[k] the    *)
(* mavutil link of line 48 (which opens its own handle on the same port).  *)
(* Identity 0 stands for None.  The port and the baud rate of a request    *)
(* are handed to the two libraries unread, so they appear only as the      *)
(* outcome of the open they are used for.                                  *)
(***************************************************************************)
EXTENDS Integers, Sequences, FiniteSets, TLC

\* ---- bounds of the model ----
MaxConn == 2      \* connect_drone calls (object identities 1..MaxConn)
MaxCalls == 3     \* handler calls in total
MaxEvents == 2    \* link events (messages sent, transport failures) in total

Threads == {"w1", "w2"}
Ids == 1..MaxConn
Msgs == {"HEARTBEAT", "ATTITUDE", "GLOBAL_POSITION_INT"}
\* the kinds the specified snapshot keeps: attitude and position
TelemetryKinds == {"ATTITUDE", "GLOBAL_POSITION_INT"}
\* the fields of the three messages (MAVLink common message set), as
\* msg.to_dict() of line 70 lists them
fieldnames ==
    [m \in Msgs |->
       CASE m = "HEARTBEAT" ->
              {"type", "autopilot", "base_mode", "custom_mode",
               "system_status", "mavlink_version"}
         [] m = "ATTITUDE" ->
              {"time_boot_ms", "roll", "pitch", "yaw", "rollspeed",
               "pitchspeed", "yawspeed"}
         [] m = "GLOBAL_POSITION_INT" ->
              {"time_boot_ms", "lat", "lon", "alt", "relative_alt", "vx",
               "vy", "vz", "hdg"}]
ModeTable == {"GUIDED"}
ModeNames == {"GUIDED", "not_a_real_mode"}

VARIABLES
    ser,            \* global ser: 0 (None) or the identity of a serial object
    mav_connection, \* global mav_connection: 0 (None) or a link identity
    serState,       \* serial object k: "unborn", "open" or "closed"
    linkState,      \* MAVLink link k: "unborn", "open" or "closed"
    rx,             \* link k's inbound messages not yet received, each
                    \* with its type and the value of its fields
    fault,          \* open link k's transport has failed: every read raises
    pc,             \* each worker thread's position
    op,             \* the handler a thread runs, or ran last
    mode_name,      \* change_mode's argument
    cid,            \* connect_drone: the identity of the objects it creates
    self,           \* the link object a method call was made on
    res,            \* the response of the thread's last finished call
    nconn,          \* connect_drone calls so far
    ncalls,         \* handler calls so far
    nevents,        \* link events so far
    handshook,      \* history: wait_heartbeat returned on link k
    telemetrySent,  \* history: the attitude and position kinds link k was
                    \* sent since it opened
    sessionDown,    \* history: never connected, or disconnected since
    clean,          \* history: the thread's disconnect began with no connect
                    \* in progress and none has begun since
    duel            \* history: the connect_drone call that began with no
                    \* other call running, while no call has begun since but,
                    \* at most, one disconnect_drone in mid-handshake

vars == <<ser, mav_connection, serState, linkState, rx, fault, pc, op,
          mode_name, cid, self, res, nconn, ncalls, nevents, handshook,
          telemetrySent, sessionDown, clean, duel>>

handles == <<ser, mav_connection, serState, linkState>>
env == <<rx, fault, nevents>>
locals == <<mode_name, cid, self>>
history == <<handshook, telemetrySent>>

\* ---- responses ----
\* A response is its status, its message or error detail, and the dictionary
\* under its "telemetry" key (EmptyDict where it has none).
EmptyDict == [mavpackettype |-> "none", fields |-> <<>>]
NoResponse == [status |-> 0, detail |-> "none", telemetry |-> EmptyDict]
Ok(msg) == [status |-> 200, detail |-> msg, telemetry |-> EmptyDict]
HTTPException(code, msg) ==
    [status |-> code, detail |-> msg, telemetry |-> EmptyDict]
\* an exception no handler catches: the framework answers 500
Unhandled == HTTPException(500, "Internal Server Error")
NotConnected == HTTPException(500, "No MAVLink connection established.")
NoActiveConnection ==
    HTTPException(500, "No active connection. Please connect first.")
ConnectionError == HTTPException(500, "Connection error")

\* no connect_drone call is on its own
NoDuel == [conn |-> 0, cancelled |-> FALSE]

Init ==
    /\ ser = 0
    /\ mav_connection = 0
    /\ serState = [k \in Ids |-> "unborn"]
    /\ linkState = [k \in Ids |-> "unborn"]
    /\ rx = [k \in Ids |-> <<>>]
    /\ fault = [k \in Ids |-> FALSE]
    /\ pc = [t \in Threads |-> "idle"]
    /\ op = [t \in Threads |-> "none"]
    /\ mode_name = [t \in Threads |-> "none"]
    /\ cid = [t \in Threads |-> 0]
    /\ self = [t \in Threads |-> 0]
    /\ res = [t \in Threads |-> NoResponse]
    /\ nconn = 0
    /\ ncalls = 0
    /\ nevents = 0
    /\ handshook = [k \in Ids |-> FALSE]
    /\ telemetrySent = [k \in Ids |-> {}]
    /\ sessionDown = TRUE
    /\ clean = [t \in Threads |-> FALSE]
    /\ duel = NoDuel

InConnect(t) == pc[t] \in {"c_serial", "c_mav", "c_load", "c_wait"}

\* connect_drone on thread t has opened its handles (lines 47-48) and has not
\* yet seen the heartbeat (line 51)
MidHandshake(t) == pc[t] \in {"c_load", "c_wait"}

\* a request for handler o arrives: what becomes of duel
Arrival(o) ==
    duel' =
      IF o = "connect_drone" /\ \A u \in Threads : pc[u] = "idle"
      THEN [conn |-> nconn + 1, cancelled |-> FALSE]
      ELSE IF /\ o = "disconnect_drone"
              /\ ~duel.cancelled
              /\ \E u \in Threads : MidHandshake(u) /\ cid[u] = duel.conn
           THEN [conn |-> duel.conn, cancelled |-> TRUE]
           ELSE NoDuel

\* the pool hands a request to its first idle worker thread
FirstIdle(t) ==
    /\ pc[t] = "idle"
    /\ t = "w2" => pc["w1"] # "idle"

\* a request for handler o arrives and the handler runs its first statement,
\* which leaves it at l
Enter(t, o, l) ==
    /\ FirstIdle(t)
    /\ ncalls < MaxCalls
    /\ ncalls' = ncalls + 1
    /\ pc' = [pc EXCEPT ![t] = l]
    /\ op' = [op EXCEPT ![t] = o]
    /\ res' = [res EXCEPT ![t] = NoResponse]
    /\ Arrival(o)

\* a request for handler o arrives and the handler's first statement ends it
\* with the response r
EnterReturn(t, o, r) ==
    /\ FirstIdle(t)
    /\ ncalls < MaxCalls
    /\ ncalls' = ncalls + 1
    /\ op' = [op EXCEPT ![t] = o]
    /\ res' = [res EXCEPT ![t] = r]
    /\ Arrival(o)
    /\ UNCHANGED <<pc, locals>>

\* a thread moves on inside its handler
Goto(t, l) ==
    /\ pc' = [pc EXCEPT ![t] = l]
    /\ UNCHANGED <<op, res, ncalls, duel>>

\* a handler returns or raises: the response is r, its locals are gone
Return(t, r) ==
    /\ pc' = [pc EXCEPT ![t] = "idle"]
    /\ res' = [res EXCEPT ![t] = r]
    /\ mode_name' = [mode_name EXCEPT ![t] = "none"]
    /\ cid' = [cid EXCEPT ![t] = 0]
    /\ self' = [self EXCEPT ![t] = 0]
    /\ UNCHANGED <<op, ncalls, duel>>

\* ---- connect_drone (lines 35-56) ----

\* POST /connect_drone {port}: the objects this call creates get the next
\* identity.  Lines 43-44: if ser and ser.is_open: ser.close()
connect_drone_close(t) ==
    /\ nconn < MaxConn
    /\ Enter(t, "connect_drone", "c_serial")
    /\ nconn' = nconn + 1
    /\ cid' = [cid EXCEPT ![t] = nconn + 1]
    /\ serState' = IF ser # 0 /\ serState[ser] = "open"
                   THEN [serState EXCEPT ![ser] = "closed"]
                   ELSE serState
    /\ sessionDown' = FALSE
    /\ clean' = [u \in Threads |-> FALSE]
    /\ UNCHANGED <<ser, mav_connection, linkState, env, history, mode_name,
                   self>>

\* line 47: ser = serial.Serial(port=..., baudrate=..., timeout=1).  The open
\* succeeds, raises SerialException (no such device) or raises ValueError (a
\* baud rate or port value the library rejects).
connect_drone_serial(t) ==
    /\ pc[t] = "c_serial"
    /\ \E outcome \in {"ok", "SerialException", "ValueError"} :
         \/ /\ outcome = "ok"
            /\ serState' = [serState EXCEPT ![cid[t]] = "open"]
            /\ ser' = cid[t]
            /\ Goto(t, "c_mav")
            /\ UNCHANGED locals
         \/ /\ outcome = "SerialException"
            /\ Return(t, ConnectionError)
            /\ UNCHANGED <<ser, serState>>
         \/ /\ outcome = "ValueError"
            /\ Return(t, Unhandled)
            /\ UNCHANGED <<ser, serState>>
    /\ UNCHANGED <<mav_connection, linkState, env, history, nconn,
                   sessionDown, clean>>

\* line 48: mav_connection = mavutil.mavlink_connection(port, baud=...): the
\* link opens its own handle on the port, or raises SerialException.
connect_drone_mav(t) ==
    /\ pc[t] = "c_mav"
    /\ \E outcome \in {"ok", "SerialException"} :
         \/ /\ outcome = "ok"
            /\ linkState' = [linkState EXCEPT ![cid[t]] = "open"]
            /\ mav_connection' = cid[t]
            /\ Goto(t, "c_load")
            /\ UNCHANGED locals
         \/ /\ outcome = "SerialException"
            /\ Return(t, ConnectionError)
            /\ UNCHANGED <<mav_connection, linkState>>
    /\ UNCHANGED <<ser, serState, env, history, nconn, sessionDown,
                   clean>>

\* line 51, the read of the global: mav_connection.wait_heartbeat.  On None
\* this is an AttributeError, which line 55 does not catch.
connect_drone_load(t) ==
    /\ pc[t] = "c_load"
    /\ IF mav_connection = 0
       THEN Return(t, Unhandled)
       ELSE /\ self' = [self EXCEPT ![t] = mav_connection]
            /\ Goto(t, "c_wait")
            /\ UNCHANGED <<mode_name, cid>>
    /\ UNCHANGED <<handles, env, history, nconn, sessionDown, clean>>

\* line 51, wait_heartbeat(): recv_match(type='HEARTBEAT', blocking=True) with
\* no timeout.  It receives message after message, drops the ones that are no
\* heartbeat and returns on a heartbeat (line 53); a read on a closed or failed
\* port raises SerialException (line 55).  With nothing to read it blocks.
connect_drone_wait(t) ==
    /\ pc[t] = "c_wait"
    /\ LET m == self[t] IN
       IF linkState[m] # "open" \/ fault[m]
       THEN /\ Return(t, ConnectionError)
            /\ UNCHANGED <<rx, handshook>>
       ELSE /\ rx[m] # <<>>
            /\ rx' = [rx EXCEPT ![m] = Tail(rx[m])]
            /\ IF Head(rx[m]).mavpackettype = "HEARTBEAT"
               THEN /\ handshook' = [handshook EXCEPT ![m] = TRUE]
                    /\ Return(t, Ok("Connected"))
               ELSE /\ UNCHANGED <<pc, op, res, ncalls, locals, handshook,
                                    duel>>
    /\ UNCHANGED <<handles, fault, nevents, telemetrySent, nconn,
                   sessionDown, clean>>

\* ---- get_telemetry (lines 58-74) ----

\* What a receive gives is a message, None, or an exception raised; the
\* latter two are written in the shape of a message that has no fields.
Message(m, v) == [mavpackettype |-> m, value |-> v]
None == Message("None", 0)
Raised(e) == Message(e, 0)

\* a to_dict that builds the dictionary field by field from a record that is
\* being replaced meanwhile: one field is left with another message's value
to_dict_torn(msg) ==
    [mavpackettype |-> msg.mavpackettype,
     fields |-> [f \in fieldnames[msg.mavpackettype] |->
                   IF f = "time_boot_ms" THEN 0 ELSE msg.value]]

\* line 70, msg.to_dict(): the message's type and every field of it with the
\* value it has in this message.  One number stands for all the field values
\* of one message, so that a dictionary shows which message a field is from.
to_dict(msg) ==
    [mavpackettype |-> msg.mavpackettype,
     fields |-> [f \in fieldnames[msg.mavpackettype] |-> msg.value]]

\* lines 69-74 on what recv_match gave: a message is returned as the
\* telemetry; on None line 72 raises HTTPException(404) inside the try, which
\* line 73 (except Exception) catches and turns into the 500 of line 74; an
\* exception of recv_match itself ends at line 74 too.
TelemetryResponse(msg) ==
    IF msg.mavpackettype \in Msgs
    THEN [status |-> 200, detail |-> "telemetry", telemetry |-> to_dict(msg)]
    ELSE HTTPException(500, "Error fetching telemetry")

\* GET /telemetry.  Lines 64-65: if not mav_connection: raise
\* HTTPException(500, ...)
get_telemetry_check(t) ==
    /\ IF mav_connection = 0
       THEN EnterReturn(t, "get_telemetry", NotConnected)
       ELSE Enter(t, "get_telemetry", "g_load") /\ UNCHANGED locals
    /\ UNCHANGED <<handles, env, history, nconn, sessionDown, clean>>

\* line 68, the read of the global: mav_connection.recv_match.  On None this
\* is an AttributeError, caught at line 73.
get_telemetry_load(t) ==
    /\ pc[t] = "g_load"
    /\ IF mav_connection = 0
       THEN Return(t, TelemetryResponse(Raised("AttributeError")))
       ELSE /\ self' = [self EXCEPT ![t] = mav_connection]
            /\ Goto(t, "g_recv")
            /\ UNCHANGED <<mode_name, cid>>
    /\ UNCHANGED <<handles, env, history, nconn, sessionDown, clean>>

\* lines 68-74 with a handler that gives the session up when the receive
\* raises: it sets mav_connection to None before it answers
get_telemetry_drop(t) ==
    /\ pc[t] = "g_recv"
    /\ LET m == self[t] IN
       IF linkState[m] # "open" \/ fault[m]
       THEN /\ Return(t, TelemetryResponse(Raised("SerialException")))
            /\ mav_connection' = 0
            /\ UNCHANGED rx
       ELSE /\ rx[m] # <<>>
            /\ rx' = [rx EXCEPT ![m] = Tail(rx[m])]
            /\ Return(t, TelemetryResponse(Head(rx[m])))
            /\ UNCHANGED mav_connection
    /\ UNCHANGED <<ser, serState, linkState, fault, nevents, history, nconn,
                   sessionDown, clean>>

\* lines 68-74: recv_match(blocking=True) with no timeout takes the next
\* message off the link, whatever its type; a read on a closed or failed port
\* raises; with nothing to read it blocks.
get_telemetry_recv(t) ==
    /\ pc[t] = "g_recv"
    /\ LET m == self[t] IN
       IF linkState[m] # "open" \/ fault[m]
       THEN /\ Return(t, TelemetryResponse(Raised("SerialException")))
            /\ UNCHANGED rx
       ELSE /\ rx[m] # <<>>
            /\ rx' = [rx EXCEPT ![m] = Tail(rx[m])]
            /\ Return(t, TelemetryResponse(Head(rx[m])))
    /\ UNCHANGED <<handles, fault, nevents, history, nconn, sessionDown,
                   clean>>

\* ---- the link's outbound path (pymavlink's write) ----

\* A frame is written on link m.  On a closed link the write is still issued:
\* the port refuses it, and the library either swallows that (the call then
\* looks successful) or lets the exception through.
LinkWrite(t, m, done, failed) ==
    IF linkState[m] = "open"
    THEN Return(t, done)
    ELSE \E r \in {done, failed} : Return(t, r)

\* ---- change_mode (lines 76-93) ----

\* POST /change_mode {mode_name}.  Lines 82-83: if not mav_connection: raise
\* HTTPException(500, ...)
change_mode_check(t) ==
    /\ IF mav_connection = 0
       THEN EnterReturn(t, "change_mode", NotConnected)
       ELSE /\ Enter(t, "change_mode", "m_map")
            /\ \E name \in ModeNames :
                 mode_name' = [mode_name EXCEPT ![t] = name]
            /\ UNCHANGED <<cid, self>>
    /\ UNCHANGED <<handles, env, history, nconn, sessionDown, clean>>

\* line 87 with a lookup that does not fail on a name the table lacks (the
\* KeyError of lines 90-91 never raised): the handler goes on to set_mode
change_mode_unmapped(t) ==
    /\ pc[t] = "m_map"
    /\ IF mav_connection = 0
       THEN Return(t, HTTPException(500, "Error changing mode"))
       ELSE Goto(t, "m_load") /\ UNCHANGED locals
    /\ UNCHANGED <<handles, env, history, nconn, sessionDown, clean>>

\* line 87: mode_id = mav_connection.mode_mapping()[mode_name]; KeyError is
\* the 400 of line 91, an AttributeError on None the 500 of line 93.
change_mode_map(t) ==
    /\ pc[t] = "m_map"
    /\ IF mav_connection = 0
       THEN Return(t, HTTPException(500, "Error changing mode"))
       ELSE IF mode_name[t] \notin ModeTable
       THEN Return(t, HTTPException(400, "Invalid mode"))
       ELSE Goto(t, "m_load") /\ UNCHANGED locals
    /\ UNCHANGED <<handles, env, history, nconn, sessionDown, clean>>

\* line 88, the read of the global: mav_connection.set_mode
change_mode_load(t) ==
    /\ pc[t] = "m_load"
    /\ IF mav_connection = 0
       THEN Return(t, HTTPException(500, "Error changing mode"))
       ELSE /\ self' = [self EXCEPT ![t] = mav_connection]
            /\ Goto(t, "m_set")
            /\ UNCHANGED <<mode_name, cid>>
    /\ UNCHANGED <<handles, env, history, nconn, sessionDown, clean>>

\* lines 88-93: set_mode(mode_id) writes the set-mode frame
change_mode_set(t) ==
    /\ pc[t] = "m_set"
    /\ LinkWrite(t, self[t], Ok("Flight mode changed"),
                 HTTPException(500, "Error changing mode"))
    /\ UNCHANGED <<handles, env, history, nconn, sessionDown, clean>>

\* ---- send_command (lines 95-117) ----

\* the handler with its check of mav_connection (lines 101-102) left out
send_command_unchecked(t) ==
    /\ Enter(t, "send_command", "s_load")
    /\ UNCHANGED <<handles, env, locals, history, nconn, sessionDown, clean>>

\* POST /send_command?command=....  Lines 101-102: if not mav_connection: raise
\* HTTPException(500, ...)
send_command_check(t) ==
    /\ IF mav_connection = 0
       THEN EnterReturn(t, "send_command", NoActiveConnection)
       ELSE Enter(t, "send_command", "s_load") /\ UNCHANGED locals
    /\ UNCHANGED <<handles, env, history, nconn, sessionDown, clean>>

\* line 106, the read of the global: mav_connection.mav.command_long_send; an
\* AttributeError on None is the 500 of line 117.
send_command_load(t) ==
    /\ pc[t] = "s_load"
    /\ IF mav_connection = 0
       THEN Return(t, HTTPException(500, "Error sending command"))
       ELSE /\ self' = [self EXCEPT ![t] = mav_connection]
            /\ Goto(t, "s_send")
            /\ UNCHANGED <<mode_name, cid>>
    /\ UNCHANGED <<handles, env, history, nconn, sessionDown, clean>>

\* lines 106-117: command_long_send(...) writes the command frame
send_command_send(t) ==
    /\ pc[t] = "s_send"
    /\ LinkWrite(t, self[t], Ok("Command sent successfully"),
                 HTTPException(500, "Error sending command"))
    /\ UNCHANGED <<handles, env, history, nconn, sessionDown, clean>>

\* ---- disconnect_drone (lines 119-130) ----

\* POST /disconnect_drone.  Lines 125-126: if ser and ser.is_open: ser.close()
disconnect_drone_ser(t) ==
    /\ Enter(t, "disconnect_drone", "d_check")
    /\ serState' = IF ser # 0 /\ serState[ser] = "open"
                   THEN [serState EXCEPT ![ser] = "closed"]
                   ELSE serState
    /\ clean' = [clean EXCEPT ![t] = \A u \in Threads : ~InConnect(u)]
    /\ UNCHANGED <<ser, mav_connection, linkState, env, locals,
                   history, nconn, sessionDown>>

\* the handler with the guard of line 127 left out: it always goes on to close
disconnect_drone_unguarded(t) ==
    /\ pc[t] = "d_check"
    /\ Goto(t, "d_close")
    /\ UNCHANGED <<handles, env, locals, history, nconn, sessionDown, clean>>

\* lines 127 and 130: if mav_connection: ...; return {"message": ...}
disconnect_drone_check(t) ==
    /\ pc[t] = "d_check"
    /\ IF mav_connection = 0
       THEN /\ Return(t, Ok("Connection closed successfully"))
            /\ sessionDown' = (sessionDown \/ clean[t])
            /\ clean' = [clean EXCEPT ![t] = FALSE]
       ELSE /\ Goto(t, "d_close")
            /\ UNCHANGED <<locals, sessionDown, clean>>
    /\ UNCHANGED <<handles, env, history, nconn>>

\* the handler with the close of line 128 left out: the link is dropped
\* (line 129) while still open
disconnect_drone_unclosed(t) ==
    /\ pc[t] = "d_close"
    /\ Goto(t, "d_none")
    /\ UNCHANGED <<handles, env, locals, history, nconn, sessionDown, clean>>

\* line 128: mav_connection.close(), with its own read of the global (an
\* AttributeError on None is caught by nothing).  Closing the link closes its
\* port, and what the port had buffered is gone with it.
disconnect_drone_close(t) ==
    /\ pc[t] = "d_close"
    /\ IF mav_connection = 0
       THEN /\ Return(t, Unhandled)
            /\ clean' = [clean EXCEPT ![t] = FALSE]
            /\ UNCHANGED <<linkState, rx, fault, telemetrySent>>
       ELSE /\ linkState' = [linkState EXCEPT ![mav_connection] = "closed"]
            /\ rx' = [rx EXCEPT ![mav_connection] = <<>>]
            /\ fault' = [fault EXCEPT ![mav_connection] = FALSE]
            /\ telemetrySent' = [telemetrySent EXCEPT ![mav_connection] = {}]
            /\ Goto(t, "d_none")
            /\ UNCHANGED <<locals, clean>>
    /\ UNCHANGED <<ser, mav_connection, serState, nevents, handshook, nconn,
                   sessionDown>>

\* lines 129-130: mav_connection = None; return {"message": ...}
disconnect_drone_none(t) ==
    /\ pc[t] = "d_none"
    /\ mav_connection' = 0
    /\ Return(t, Ok("Connection closed successfully"))
    /\ sessionDown' = (sessionDown \/ clean[t])
    /\ clean' = [clean EXCEPT ![t] = FALSE]
    /\ UNCHANGED <<ser, serState, linkState, env, history, nconn>>

\* ---- the vehicle and the transport ----

\* Some handler is blocked in a receive on link k.  What arrives on a link,
\* and a failure of its transport, is seen by receives on that link alone, so
\* an event that happens while nobody receives is, to every handler, the same
\* event happening when the next receive has begun: the model lets the events
\* happen then.
Receiving(k) == \E t \in Threads : pc[t] \in {"c_wait", "g_recv"} /\ self[t] = k

\* the vehicle on an open link sends a message, whose fields have value v
Deliver(k, v) ==
    /\ linkState[k] = "open"
    /\ Receiving(k)
    /\ nevents < MaxEvents
    /\ \E m \in Msgs :
         /\ rx' = [rx EXCEPT ![k] = Append(rx[k], Message(m, v))]
         /\ telemetrySent' =
              [telemetrySent EXCEPT ![k] = @ \cup ({m} \cap TelemetryKinds)]
    /\ nevents' = nevents + 1
    /\ UNCHANGED <<handles, fault, pc, op, res, ncalls, locals, handshook,
                   nconn, sessionDown, clean, duel>>

\* the transport under an open link fails for good (device unplugged)
LinkFault(k) ==
    /\ linkState[k] = "open"
    /\ Receiving(k)
    /\ ~fault[k]
    /\ nevents < MaxEvents
    /\ fault' = [fault EXCEPT ![k] = TRUE]
    /\ nevents' = nevents + 1
    /\ UNCHANGED <<handles, rx, pc, op, res, ncalls, locals, history,
                   nconn, sessionDown, clean, duel>>

\* ---- the specification ----

\* a handler that is running on thread t takes its next step
Step(t) ==
    \/ connect_drone_serial(t)
    \/ connect_drone_mav(t)
    \/ connect_drone_load(t)
    \/ connect_drone_wait(t)
    \/ get_telemetry_load(t)
    \/ get_telemetry_recv(t)
    \/ change_mode_map(t)
    \/ change_mode_load(t)
    \/ change_mode_set(t)
    \/ send_command_load(t)
    \/ send_command_send(t)
    \/ disconnect_drone_check(t)
    \/ disconnect_drone_close(t)
    \/ disconnect_drone_none(t)

Next ==
    \/ \E t \in Threads : connect_drone_close(t)
    \/ \E t \in Threads : connect_drone_serial(t)
    \/ \E t \in Threads : connect_drone_mav(t)
    \/ \E t \in Threads : connect_drone_load(t)
    \/ \E t \in Threads : connect_drone_wait(t)
    \/ \E t \in Threads : get_telemetry_check(t)
    \/ \E t \in Threads : get_telemetry_load(t)
    \/ \E t \in Threads : get_telemetry_recv(t)
    \/ \E t \in Threads : change_mode_check(t)
    \/ \E t \in Threads : change_mode_map(t)
    \/ \E t \in Threads : change_mode_load(t)
    \/ \E t \in Threads : change_mode_set(t)
    \/ \E t \in Threads : send_command_check(t)
    \/ \E t \in Threads : send_command_load(t)
    \/ \E t \in Threads : send_command_send(t)
    \/ \E t \in Threads : disconnect_drone_ser(t)
    \/ \E t \in Threads : disconnect_drone_check(t)
    \/ \E t \in Threads : disconnect_drone_close(t)
    \/ \E t \in Threads : disconnect_drone_none(t)
    \/ \E k \in Ids : Deliver(k, 0)  \* values are not told apart here
    \/ \E k \in Ids : LinkFault(k)

Spec == Init /\ [][Next]_vars

\* The thread pool runs every handler that can take a step; what the vehicle
\* sends, and whether a request arrives at all, is up to the environment.
FairSpec == Spec /\ \A t \in Threads : WF_vars(Step(t))

\* ---- a link whose receive can come back empty ----

\* lines 68-74 on a link whose receive returns None when nothing has arrived
\* (a receive that does not block, or that gives up waiting): the handler
\* goes through lines 71-74.
get_telemetry_none(t) ==
    /\ pc[t] = "g_recv"
    /\ linkState[self[t]] = "open"
    /\ ~fault[self[t]]
    /\ rx[self[t]] = <<>>
    /\ Return(t, TelemetryResponse(None))
    /\ UNCHANGED <<handles, env, history, nconn, sessionDown, clean>>

NoMessageNext ==
    \/ Next
    \/ \E t \in Threads : get_telemetry_none(t)

NoMessageSpec == Init /\ [][NoMessageNext]_vars

\* ---- the reads of a connected session ----

\* The state in which the first connect_drone has returned its success
\* message: handles 1 open, the heartbeat received.  The calls and link events
\* counted from here on are those of the reads alone.
ReadInit ==
    /\ ser = 1
    /\ mav_connection = 1
    /\ serState = [k \in Ids |-> IF k = 1 THEN "open" ELSE "unborn"]
    /\ linkState = [k \in Ids |-> IF k = 1 THEN "open" ELSE "unborn"]
    /\ rx = [k \in Ids |-> <<>>]
    /\ fault = [k \in Ids |-> FALSE]
    /\ pc = [t \in Threads |-> "idle"]
    /\ op = [t \in Threads |-> IF t = "w1" THEN "connect_drone" ELSE "none"]
    /\ mode_name = [t \in Threads |-> "none"]
    /\ cid = [t \in Threads |-> 0]
    /\ self = [t \in Threads |-> 0]
    /\ res = [t \in Threads |->
                IF t = "w1" THEN Ok("Connected") ELSE NoResponse]
    /\ nconn = 1
    /\ ncalls = 0
    /\ nevents = 0
    /\ handshook = [k \in Ids |-> k = 1]
    /\ telemetrySent = [k \in Ids |-> {}]
    /\ sessionDown = FALSE
    /\ clean = [t \in Threads |-> FALSE]
    /\ duel = [conn |-> 1, cancelled |-> FALSE]

\* get_telemetry calls, on one worker or on both at a time, while the vehicle
\* sends messages; the n-th message sent carries the value n in its fields, so
\* that any two messages differ
ReadNext ==
    \/ \E t \in Threads : get_telemetry_check(t)
    \/ \E t \in Threads : get_telemetry_load(t)
    \/ \E t \in Threads : get_telemetry_recv(t)
    \/ \E k \in Ids : Deliver(k, nevents + 1)

ReadSpec == ReadInit /\ [][ReadNext]_vars

\* ---- what the claims speak of ----

\* the fields the specified snapshot keeps of a message of each kind
SnapshotFields ==
    [k \in TelemetryKinds |->
       IF k = "ATTITUDE"
       THEN {"pitch", "roll", "yaw", "time"}
       ELSE {"latitude", "longitude", "altitude", "time"}]

AllIdle == \A t \in Threads : pc[t] = "idle"

\* so far the calls came one after the other: the pool never needed its
\* second worker
Sequential == op["w2"] = "none"

\* a handle of the k-th connect_drone call is open
SessionOpen(k) == serState[k] = "open" \/ linkState[k] = "open"

ClosedOk == Ok("Connection closed successfully")

\* in this step thread t finishes a call of handler o
Returns(t, o) == pc[t] # "idle" /\ pc'[t] = "idle" /\ op[t] = o

\* in this step a request for handler o arrives on thread t and the handler
\* runs its first statement
Begins(t, o) == FirstIdle(t) /\ ncalls' = ncalls + 1 /\ op'[t] = o

\* no handle of any call is open after this step
NothingOpenAfter ==
    \A k \in Ids : serState'[k] # "open" /\ linkState'[k] # "open"

\* C1: At-most-one-session.  After connect_drone calls made one after the
\* other, the open handles (serial handle, MAVLink link) all belong to one
\* call: a connect_drone on a live session has closed the prior session's
\* handles, and two sessions' handles are never open together.
C1_AtMostOneSession ==
    (AllIdle /\ Sequential) => Cardinality({k \in Ids : SessionOpen(k)}) <= 1

\* C2: A connect_drone call that ends in a failure, no other handler having
\* run beside it, leaves the session Disconnected: mav_connection is None and
\* no serial handle or link is open.
C2_FailedConnectLeavesNothing ==
    [][\A t \in Threads :
          (Returns(t, "connect_drone") /\ Sequential /\ res'[t].status # 200)
          => (mav_connection' = 0 /\ NothingOpenAfter)]_vars

\* C3: A command or set-mode frame is never written on a closed link: when
\* send_command or change_mode issues its write, the link is open.
C3_NoWriteOnClosedLink ==
    [][\A t \in Threads :
          (pc[t] \in {"s_send", "m_set"} /\ pc'[t] = "idle")
          => linkState[self[t]] = "open"]_vars

\* C4: get_telemetry, change_mode and send_command get past their
\* "not connected" check only when the heartbeat handshake on the session's
\* link has succeeded.
C4_ConnectedOnlyAfterHeartbeat ==
    [][\A t \in Threads :
          (pc[t] = "idle" /\ pc'[t] \in {"g_load", "m_map", "s_load"})
          => handshook[mav_connection]]_vars

\* C5: The heartbeat wait of connect_drone is bounded: a call that waits
\* for the heartbeat returns in the end, whether or not a heartbeat comes,
\* and it returns success only on a heartbeat.
C5_HeartbeatWaitEnds ==
    /\ \A t \in Threads : (pc[t] = "c_wait") ~> (pc[t] = "idle")
    /\ [][\A t \in Threads :
            (Returns(t, "connect_drone") /\ res'[t].status = 200)
            => (/\ rx[self[t]] # <<>>
                /\ Head(rx[self[t]]).mavpackettype = "HEARTBEAT")]_vars

\* C6: get_telemetry never blocks on the arrival of telemetry: on a
\* connected session (handshake done, link open) a call that has begun its
\* receive returns in the end, whether or not a message comes.
C6_TelemetryReturns ==
    \A t \in Threads :
        (/\ pc[t] = "g_recv"
         /\ handshook[self[t]]
         /\ linkState[self[t]] = "open")
        ~> (pc[t] = "idle")

\* C7: On a session that connected successfully (the handshake succeeded, the
\* link is the session's, open and sound) and has been sent no attitude or
\* position message yet, a get_telemetry call that returns, no handler having
\* run beside it, returns the successful empty Snapshot.
C7_EmptySnapshotBeforeTelemetry ==
    [][\A t \in Threads :
          (/\ Returns(t, "get_telemetry")
           /\ Sequential
           /\ pc[t] = "g_recv"
           /\ self[t] = mav_connection
           /\ handshook[self[t]]
           /\ linkState[self[t]] = "open"
           /\ ~fault[self[t]]
           /\ telemetrySent[self[t]] = {})
          => (res'[t].status = 200 /\ res'[t].telemetry = EmptyDict)]_vars

\* C8: With no live session (never connected, or disconnected since) each of
\* get_telemetry, change_mode and send_command ends at its first statement
\* with the not-connected error: it reads and writes no link and leaves the
\* session as it was.
C8_NotConnectedWithoutSession ==
    [][\A t \in Threads :
          (sessionDown
              /\ \E o \in {"get_telemetry", "change_mode", "send_command"} :
                    Begins(t, o))
          => (/\ pc'[t] = "idle"
              /\ res'[t] \in {NotConnected, NoActiveConnection}
              /\ UNCHANGED <<handles, env, sessionDown>>)]_vars

\* a call made after a connect and a disconnect found no session
C8_Witness ==
    /\ sessionDown
    /\ linkState[1] = "closed"
    /\ \E t \in Threads :
         /\ pc[t] = "idle"
         /\ op[t] = "send_command"
         /\ res[t] = NoActiveConnection

\* C9: A disconnect_drone with no live session (before any connect, or right
\* after a disconnect) is a no-op: it closes nothing, changes neither global
\* and answers with the usual success message.
C9_SecondDisconnectNoOp ==
    [][\A t \in Threads :
          (/\ sessionDown
           /\ op'[t] = "disconnect_drone"
           /\ pc[t] \in {"idle", "d_check"}
           /\ pc'[t] # pc[t])
          => (/\ pc'[t] \in {"d_check", "idle"}
              /\ pc'[t] = "idle" => res'[t] = ClosedOk
              /\ UNCHANGED <<handles, env, sessionDown>>)]_vars

\* after a connect that opened its link and a disconnect that closed it, the
\* same worker is inside the next disconnect_drone
C9_Witness ==
    /\ sessionDown
    /\ Sequential
    /\ linkState[1] = "closed"
    /\ op["w1"] = "disconnect_drone"
    /\ pc["w1"] = "d_check"

\* C10: When a disconnect_drone returns after connect_drone calls made one
\* after the other, the session is Disconnected and no serial handle or link
\* that any of those calls opened is still open.
C10_DisconnectClosesAll ==
    [][\A t \in Threads :
          (Returns(t, "disconnect_drone") /\ Sequential)
          => (mav_connection' = 0 /\ NothingOpenAfter)]_vars

\* C11: change_mode with a mode name that the connected vehicle's mode table
\* lacks, on a session whose handshake is done, ends at the lookup of line 87
\* with the client error 400 "Invalid mode": it never reaches set_mode, so no
\* set-mode frame is written, and the globals, the handles' open/closed state
\* and the link's inbound side are as they were.
C11_UnknownModeRejected ==
    [][\A t \in Threads :
          (/\ pc[t] = "m_map"
           /\ pc'[t] # "m_map"
           /\ mav_connection # 0
           /\ handshook[mav_connection]
           /\ mode_name[t] \notin ModeTable)
          => (/\ pc'[t] = "idle"
              /\ res'[t] = HTTPException(400, "Invalid mode")
              /\ UNCHANGED <<handles, env>>)]_vars

\* a change_mode call has been refused with 400 on a session that is still
\* connected, its link open
C11_Witness ==
    /\ mav_connection # 0
    /\ handshook[mav_connection]
    /\ linkState[mav_connection] = "open"
    /\ \E t \in Threads :
         /\ pc[t] = "idle"
         /\ op[t] = "change_mode"
         /\ res[t] = HTTPException(400, "Invalid mode")

\* C12: Once a fatal transport error on a Connected session's link (its
\* handshake done) has shown itself to a caller (get_telemetry has answered
\* with its fetch error, the link's transport having failed), the session is
\* Disconnected: the next get_telemetry, change_mode or send_command call,
\* made after it, ends at its first statement with the not-connected error.
C12_FatalErrorDisconnects ==
    [][\A t \in Threads :
          (/\ Sequential
           /\ mav_connection # 0
           /\ handshook[mav_connection]
           /\ fault[mav_connection]
           /\ op[t] = "get_telemetry"
           /\ res[t] = HTTPException(500, "Error fetching telemetry")
           /\ \E o \in {"get_telemetry", "change_mode", "send_command"} :
                Begins(t, o))
          => (/\ pc'[t] = "idle"
              /\ res'[t] \in {NotConnected, NoActiveConnection})]_vars

\* C13: get_telemetry is a pure read: no step of a get_telemetry call, made
\* with no other call beside it, takes anything off the link, so the inbound
\* messages of every link are the same after the step as before it.
C13_TelemetryConsumesNothing ==
    [][\A t \in Threads :
          (/\ Sequential
           /\ \/ Begins(t, "get_telemetry")
              \/ /\ op[t] = "get_telemetry"
                 /\ pc[t] \in {"g_load", "g_recv"}
                 /\ pc'[t] # pc[t])
          => rx' = rx]_vars

\* C14: When a get_telemetry call made on its own returns on a session that
\* is connected and whose link has been sent attitude or position messages,
\* the result holds, for every kind that was sent, the fields the snapshot
\* keeps of that kind, and nothing else: after one attitude message, exactly
\* pitch, roll, yaw and time.
C14_TelemetryIsSnapshot ==
    [][\A t \in Threads :
          (/\ Returns(t, "get_telemetry")
           /\ Sequential
           /\ pc[t] = "g_recv"
           /\ self[t] = mav_connection
           /\ handshook[self[t]]
           /\ linkState[self[t]] = "open"
           /\ ~fault[self[t]]
           /\ telemetrySent[self[t]] # {})
          => (/\ res'[t].status = 200
              /\ DOMAIN res'[t].telemetry.fields =
                   UNION {SnapshotFields[k] : k \in telemetrySent[self[t]]})
      ]_vars

\* C15: A message of a kind the snapshot does not keep (here: HEARTBEAT) is
\* dropped: what a get_telemetry call, made with no other call beside it,
\* returns is never such a message.
C15_UnrecognizedDropped ==
    \A t \in Threads :
       (/\ Sequential
        /\ pc[t] = "idle"
        /\ op[t] = "get_telemetry"
        /\ res[t].status = 200)
       => res[t].telemetry.mavpackettype \in TelemetryKinds \cup {"none"}

C18_ConnectFailuresMapped ==
    \A t \in Threads :
       (pc[t] = "idle" /\ op[t] = "connect_drone")
       => res[t] \in {Ok("Connected"), ConnectionError}

\* C19: On a connected session whose link is open and sound, a get_telemetry
\* call, made with no other call beside it, whose receive returns no message
\* answers with status 404, "No telemetry data available." (status 500 is for
\* a receive that raises).
C19_NoMessageIs404 ==
    [][\A t \in Threads :
          (/\ Sequential
           /\ pc[t] = "g_recv"
           /\ pc'[t] = "idle"
           /\ handshook[self[t]]
           /\ linkState[self[t]] = "open"
           /\ ~fault[self[t]]
           /\ rx[self[t]] = <<>>)
          => res'[t] = HTTPException(404, "No telemetry data available.")
      ]_vars

\* C20: No step of a get_telemetry, change_mode or send_command call, however
\* the call ends, changes the globals ser and mav_connection or the
\* open/closed state of any serial handle or link: these are changed by
\* connect_drone and disconnect_drone alone.
C20_HandlesFrame ==
    [][\A t \in Threads :
          (\E o \in {"get_telemetry", "change_mode", "send_command"} :
              \/ Begins(t, o)
              \/ op[t] = o /\ pc[t] # "idle" /\ pc'[t] # pc[t])
          => UNCHANGED handles]_vars

\* on a connected session a get_telemetry call has ended in its fetch error
\* (the link's transport has failed) and the session still holds the link
C20_Witness ==
    /\ mav_connection # 0
    /\ handshook[mav_connection]
    /\ linkState[mav_connection] = "open"
    /\ fault[mav_connection]
    /\ \E t \in Threads :
         /\ pc[t] = "idle"
         /\ op[t] = "get_telemetry"
         /\ res[t] = HTTPException(500, "Error fetching telemetry")

====
